---- MODULE Spec2Model ----
(***************************************************************************)
(* Model of the prompt router of MayuraAI/backend:                         *)
(*   classifier/router/prompt_router.py  (PromptRouter)                    *)
(*   classifier/router/main.py           (the /complete endpoint)          *)
(*   classifier/logging_utils.py         (the DailyLogger singleton)       *)
(*   classifier/data/process_oasst1.py   (the resumable dataset run)       *)
(*                                                                         *)
(* Numbers.  Python floats are modelled as exact rationals.  A probability *)
(* p is the integer k with p = k / ProbScale; a quality coefficient is in  *)
(* tenths and a cost in hundredths, so a raw quality score is an integer   *)
(* in units of 1 / (10 * ProbScale).  Normalised scores and final scores   *)
(* are ratios, kept as reduced fractions [n, d] with d > 0; the importance *)
(* weights are kept in tenths (9 is 0.9).                                  *)
(***************************************************************************)
EXTENDS Integers, Sequences, FiniteSets, TLC

VARIABLES
    model_scores,            \* PromptRouter.model_scores: the catalog, in dict order
    default_model,           \* PromptRouter.default_model (a name, or "None")
    model_display_name_map,  \* PromptRouter.model_display_name_map
    req,                     \* the /complete requests, one record per request slot
    concurrent_requests,     \* main.CONCURRENT_REQUESTS gauge
    wdist,                   \* the dict given to a direct call of _get_dynamic_weights
                             \* or of the score engine
    wout,                    \* the result of _get_dynamic_weights, <<>> before the call
    cands,                   \* the candidates given to a direct call of the score engine
    sout,                    \* the score engine's result, <<>> before the call
    last_config_check,       \* PromptRouter._last_config_check
    config_file,             \* the config file: its models and its st_mtime
    now,                     \* time.time()
    instance,                \* DailyLogger._instance: <<>> for None, else the object
    lock,                    \* the holder of DailyLogger._lock, "free" if none
    thread,                  \* the threads calling DailyLogger()
    checkpoint_file,         \* processing_checkpoint.json: <<>> if absent
    output_file,             \* the output CSV: the rows written, by batch number
    run                      \* the current run of DatasetProcessor.run

reloadVars == <<last_config_check, config_file, now>>
loggerVars == <<instance, lock, thread>>
datasetVars == <<checkpoint_file, output_file, run>>

vars == <<model_scores, default_model, model_display_name_map, req,
          concurrent_requests, wdist, wout, cands, sout,
          last_config_check, config_file, now, instance, lock, thread,
          checkpoint_file, output_file, run>>

(***************************************************************************)
(* Bounds                                                                  *)
(***************************************************************************)
MaxModels == 3
ProbScale == 10

Requests == {"r1", "r2"}

(***************************************************************************)
(* Rationals                                                               *)
(***************************************************************************)
RECURSIVE GCD(_, _)
GCD(a, b) == IF b = 0 THEN a ELSE GCD(b, a % b)

Rat(n, d) == LET g == GCD(IF n < 0 THEN -n ELSE n, d)
             IN  [n |-> n \div g, d |-> d \div g]

RatLeq(x, y) == x.n * y.d <= y.n * x.d
RatLt(x, y)  == x.n * y.d < y.n * x.d
RatAdd(x, y) == Rat(x.n * y.d + y.n * x.d, x.d * y.d)
RatScale(k, x) == Rat(k * x.n, x.d)
RatZero == Rat(0, 1)
RatOne  == Rat(1, 1)

(***************************************************************************)
(* Configuration: the task categories and the backends a config file may   *)
(* list.                                                                   *)
(***************************************************************************)
\* The classifier's label order (LabelEncoder.classes_ is sorted).
CategoryOrder == <<"conversation", "math", "poetry", "writing">>
Categories == {CategoryOrder[i] : i \in 1..Len(CategoryOrder)}

\* PromptRouter.task_importance, restricted to the categories of the model;
\* "poetry" stands for a category that is absent from the table.
task_importance == [math |-> "critical", writing |-> "medium", conversation |-> "casual"]

\* The backends a config file may list.  display_name "" stands for an entry
\* without a display_name key.
Pool == {
    [name |-> "A", tier |-> "free", cost_per_request |-> 1,
     quality |-> [math |-> 9], display_name |-> "Model A"],
    [name |-> "B", tier |-> "free", cost_per_request |-> 5,
     quality |-> [math |-> 5], display_name |-> ""],
    [name |-> "C", tier |-> "free", cost_per_request |-> 1,
     quality |-> [math |-> 9, conversation |-> 7], display_name |-> "Model C"],
    [name |-> "P", tier |-> "pro", cost_per_request |-> 5,
     quality |-> [math |-> 9, conversation |-> 5], display_name |-> "Model P"],
    [name |-> "Q", tier |-> "pro", cost_per_request |-> 1,
     quality |-> [math |-> 5, conversation |-> 9], display_name |-> "Model Q"] }

\* A config file: backends with unique names, in file order, at most one of
\* them flagged is_default (d = 0: none).
ConfigOf(s, d) ==
    [i \in 1..Len(s) |->
        [name |-> s[i].name, tier |-> s[i].tier,
         cost_per_request |-> s[i].cost_per_request, quality |-> s[i].quality,
         display_name |-> s[i].display_name, is_default |-> (i = d)]]

Listings == {s \in UNION {[1..n -> Pool] : n \in 0..MaxModels} :
                \A i, j \in 1..Len(s) : s[i].name = s[j].name => i = j}
Configs == {ConfigOf(s, d) : s \in Listings, d \in 0..MaxModels}

\* A dict from category to probability is the sequence of its items, in the
\* classifier's label order; a probability k stands for k / ProbScale.
Item(c, k) == [category |-> c, prob |-> k]

\* What the classifier collaborator may return to a route call: a dict that
\* may be partial, unnormalised, all zero or empty.
RouteDists == {
    <<Item("math", ProbScale)>>,
    <<Item("conversation", ProbScale)>>,
    <<Item("writing", ProbScale)>>,
    <<Item("conversation", ProbScale \div 2), Item("math", ProbScale \div 2)>>,
    <<Item("conversation", 0), Item("math", 0)>>,
    <<>> }

(***************************************************************************)
(* PromptRouter                                                            *)
(***************************************************************************)
\* model_data.get('display_name', model_name)
GetDisplayName(model_data) ==
    IF model_data.display_name # "" THEN model_data.display_name ELSE model_data.name

\* Mutant of GetCoefficient: a missing coefficient counts as 1.0.
GetCoefficient_MissingAsOne(model_data, category) ==
    IF category \in DOMAIN model_data.quality THEN model_data.quality[category] ELSE 10

\* model_data.get(category, 0)
GetCoefficient(model_data, category) ==
    IF category \in DOMAIN model_data.quality THEN model_data.quality[category] ELSE 0

Names(ms) == [i \in 1..Len(ms) |-> ms[i].name]
NameSet(ms) == {ms[i].name : i \in 1..Len(ms)}

\* _load_config: the loop over model_scores.items() stops at the first
\* is_default entry, so the display-name map covers the entries up to it.
FirstDefault(models) ==
    LET D == {i \in 1..Len(models) : models[i].is_default}
    IN  IF D = {} THEN 0 ELSE CHOOSE i \in D : \A j \in D : i <= j

load_config_default_model(models) ==
    IF FirstDefault(models) = 0 THEN "None" ELSE models[FirstDefault(models)].name

load_config_display_name_map(models) ==
    LET last == IF FirstDefault(models) = 0 THEN Len(models) ELSE FirstDefault(models)
    IN  [nm \in {models[i].name : i \in 1..last} |->
            GetDisplayName(CHOOSE m \in {models[i] : i \in 1..last} : m.name = nm)]

\* Mutants of TierBranch: hierarchical tiers, one way and the other.
TierBranch_ProSeesAll(model_data, request_type) ==
    IF request_type = "pro" THEN TRUE
    ELSE IF request_type = "free" THEN model_data.tier = "free"
    ELSE FALSE

TierBranch_FreeSeesAll(model_data, request_type) ==
    IF request_type = "pro" THEN model_data.tier = "pro"
    ELSE IF request_type = "free" THEN TRUE
    ELSE FALSE

\* _filter_models_by_tier: the branch taken for one catalog entry
TierBranch(model_data, request_type) ==
    LET model_tier == model_data.tier
    IN  IF request_type = "pro" THEN model_tier = "pro"
        ELSE IF request_type = "free" THEN model_tier = "free"
        ELSE FALSE

RECURSIVE FilterFrom(_, _, _)
FilterFrom(ms, request_type, i) ==
    IF i > Len(ms) THEN <<>>
    ELSE (IF TierBranch(ms[i], request_type) THEN <<ms[i]>> ELSE <<>>)
         \o FilterFrom(ms, request_type, i + 1)

filter_models_by_tier(ms, request_type) == FilterFrom(ms, request_type, 1)

\* Mutant of fallback_models: the default model is not consulted.
fallback_models_First(ms, dm) == <<ms[1]>>

\* route_prompt, lines 344-351: the fallback when the tier filter is empty.
\* Called only with a non-empty catalog (an empty one raises IndexError).
fallback_models(ms, dm) ==
    IF dm # "None" /\ dm \in NameSet(ms)
    THEN <<CHOOSE m \in {ms[i] : i \in 1..Len(ms)} : m.name = dm>>
    ELSE <<ms[1]>>

\* Mutant of ImportanceLevel: a category absent from the table is casual.
ImportanceLevel_UnknownCasual(category) ==
    IF category \in DOMAIN task_importance THEN task_importance[category] ELSE "casual"

\* _get_dynamic_weights.  The loop adds prob * category_importance to
\* importance_score and prob to total_prob; the importance is kept doubled
\* (critical 2, medium 1, casual 0) so that the sums stay integers.
ImportanceLevel(category) ==
    IF category \in DOMAIN task_importance THEN task_importance[category] ELSE "medium"

\* Mutant of CategoryImportance2: the else branch gives the medium value.
CategoryImportance2_CasualAsMedium(category) ==
    IF ImportanceLevel(category) = "critical" THEN 2 ELSE 1

CategoryImportance2(category) ==
    IF ImportanceLevel(category) = "critical" THEN 2
    ELSE IF ImportanceLevel(category) = "medium" THEN 1
    ELSE 0

RECURSIVE ImportanceSum2(_, _)
ImportanceSum2(category_probs, i) ==
    IF i > Len(category_probs) THEN 0
    ELSE category_probs[i].prob * CategoryImportance2(category_probs[i].category)
         + ImportanceSum2(category_probs, i + 1)

RECURSIVE TotalProb(_, _)
TotalProb(category_probs, i) ==
    IF i > Len(category_probs) THEN 0
    ELSE category_probs[i].prob + TotalProb(category_probs, i + 1)

\* importance_score after "if total_prob > 0: importance_score /= total_prob"
ImportanceScore(category_probs) ==
    LET s2 == ImportanceSum2(category_probs, 1)
        tp == TotalProb(category_probs, 1)
    IN  IF tp > 0 THEN Rat(s2, 2 * tp) ELSE Rat(s2, 2 * ProbScale)

\* The weights in tenths: <<quality_weight, cost_weight>>
get_dynamic_weights(category_probs) ==
    LET importance_score == ImportanceScore(category_probs)
    IN  IF RatLeq(Rat(7, 10), importance_score) THEN <<9, 1>>
        ELSE IF RatLeq(Rat(4, 10), importance_score) THEN <<6, 4>>
        ELSE <<2, 8>>

\* _calculate_model_scores: one record per candidate, in candidate order.
RECURSIVE QualityScore(_, _, _)
QualityScore(category_probs, model_data, i) ==
    IF i > Len(category_probs) THEN 0
    ELSE category_probs[i].prob * GetCoefficient(model_data, category_probs[i].category)
         + QualityScore(category_probs, model_data, i + 1)

calculate_model_scores(category_probs, filtered_models) ==
    [i \in 1..Len(filtered_models) |->
        [name |-> filtered_models[i].name,
         quality_score |-> QualityScore(category_probs, filtered_models[i], 1),
         cost |-> filtered_models[i].cost_per_request,
         tier |-> filtered_models[i].tier,
         display_name |-> GetDisplayName(filtered_models[i])]]

\* _normalize_scores
SeqMax(s) == CHOOSE x \in {s[i] : i \in 1..Len(s)} : \A j \in 1..Len(s) : s[j] <= x
\* Mutant of SeqMin: the minimum is taken as 0, not as the candidates' minimum.
SeqMin_Zero(s) == 0

SeqMin(s) == CHOOSE x \in {s[i] : i \in 1..Len(s)} : \A j \in 1..Len(s) : x <= s[j]

\* Mutant of NormQuality: the minimum is not subtracted.
NormQuality_NoMin(quality_score, min_quality, max_quality) ==
    IF max_quality = min_quality THEN RatOne
    ELSE Rat(quality_score, max_quality - min_quality)

\* Mutant of NormQuality: a zero-variance quality signal is scored 0.0.
NormQuality_TieZero(quality_score, min_quality, max_quality) ==
    IF max_quality = min_quality THEN RatZero
    ELSE Rat(quality_score - min_quality, max_quality - min_quality)

NormQuality(quality_score, min_quality, max_quality) ==
    IF max_quality = min_quality THEN RatOne
    ELSE Rat(quality_score - min_quality, max_quality - min_quality)

\* Mutant of NormCost: the "1 -" is missing, so a higher cost scores higher.
NormCost_HigherIsBetter(cost, min_cost, max_cost) ==
    IF max_cost = min_cost THEN RatOne
    ELSE Rat(cost - min_cost, max_cost - min_cost)

\* Mutant of NormCost: equal costs are scored 0.0.
NormCost_TieZero(cost, min_cost, max_cost) ==
    IF max_cost = min_cost THEN RatZero
    ELSE Rat((max_cost - min_cost) - (cost - min_cost), max_cost - min_cost)

NormCost(cost, min_cost, max_cost) ==
    IF max_cost = min_cost THEN RatOne
    ELSE Rat((max_cost - min_cost) - (cost - min_cost), max_cost - min_cost)

\* (quality_weight * norm_quality) + (cost_weight * norm_cost), weights in tenths
FinalScore(quality_weight, cost_weight, norm_quality, norm_cost) ==
    LET s == RatAdd(RatScale(quality_weight, norm_quality),
                    RatScale(cost_weight, norm_cost))
    IN  Rat(s.n, 10 * s.d)

normalize_scores(scores, quality_weight, cost_weight) ==
    LET quality_scores == [i \in 1..Len(scores) |-> scores[i].quality_score]
        costs == [i \in 1..Len(scores) |-> scores[i].cost]
        max_quality == IF Len(scores) > 0 THEN SeqMax(quality_scores) ELSE 1
        min_quality == IF Len(scores) > 0 THEN SeqMin(quality_scores) ELSE 0
        max_cost == IF Len(scores) > 0 THEN SeqMax(costs) ELSE 1
        min_cost == IF Len(scores) > 0 THEN SeqMin(costs) ELSE 0
    IN  [i \in 1..Len(scores) |->
            LET norm_quality == NormQuality(scores[i].quality_score, min_quality, max_quality)
                norm_cost == NormCost(scores[i].cost, min_cost, max_cost)
            IN  [name |-> scores[i].name,
                 quality_score |-> scores[i].quality_score,
                 normalized_quality |-> norm_quality,
                 cost |-> scores[i].cost,
                 normalized_cost |-> norm_cost,
                 final_score |-> FinalScore(quality_weight, cost_weight,
                                            norm_quality, norm_cost),
                 tier |-> scores[i].tier,
                 display_name |-> scores[i].display_name]]

\* sorted(normalized_scores.items(), key=final_score, reverse=True): Python's
\* sort is stable, also with reverse=True.  x goes before the first element
\* with a strictly smaller key.
\* Mutant of InsertDescending: x goes before the elements of equal key too.
RECURSIVE InsertDescending_Unstable(_, _)
InsertDescending_Unstable(x, s) ==
    IF s = <<>> THEN <<x>>
    ELSE IF RatLeq(Head(s).final_score, x.final_score) THEN <<x>> \o s
    ELSE <<Head(s)>> \o InsertDescending_Unstable(x, Tail(s))

RECURSIVE InsertDescending(_, _)
InsertDescending(x, s) ==
    IF s = <<>> THEN <<x>>
    ELSE IF RatLt(Head(s).final_score, x.final_score) THEN <<x>> \o s
    ELSE <<Head(s)>> \o InsertDescending(x, Tail(s))

RECURSIVE SortFrom(_, _, _)
SortFrom(ns, i, acc) ==
    IF i > Len(ns) THEN acc ELSE SortFrom(ns, i + 1, InsertDescending(ns[i], acc))

sorted_models(normalized_scores) == SortFrom(normalized_scores, 1, <<>>)

\* max(category_probs, key=category_probs.get): the first key of maximal
\* probability.  Raises ValueError on an empty dict (see RouteRaises).
PredictedCategory(category_probs) ==
    LET i == CHOOSE k \in 1..Len(category_probs) :
                /\ \A j \in 1..Len(category_probs) :
                       category_probs[j].prob <= category_probs[k].prob
                /\ \A j \in 1..(k - 1) : category_probs[j].prob < category_probs[k].prob
    IN  category_probs[i].category

\* max(category_probs.values())
Confidence(category_probs) ==
    SeqMax([i \in 1..Len(category_probs) |-> category_probs[i].prob])

\* Mutant of PrimaryModel: the pick cycles with a process-wide counter.
PrimaryModel_Cycling(sorted, dm) ==
    IF Len(sorted) > 0 THEN sorted[(concurrent_requests % Len(sorted)) + 1].name ELSE dm

\* Mutant of SecondaryModel: the second place is never read.
SecondaryModel_Primary(sorted, primary_model) == primary_model

\* route_prompt, lines 385-387
PrimaryModel(sorted, dm) == IF Len(sorted) > 0 THEN sorted[1].name ELSE dm
SecondaryModel(sorted, primary_model) ==
    IF Len(sorted) > 1 THEN sorted[2].name ELSE primary_model

DisplayNameIn(normalized_scores, nm) ==
    (CHOOSE x \in {normalized_scores[i] : i \in 1..Len(normalized_scores)} :
        x.name = nm).display_name

\* self.model_display_name_map.get(self.default_model, self.default_model)
DefaultDisplayName(dnm, dm) == IF dm \in DOMAIN dnm THEN dnm[dm] ELSE dm

\* route_prompt after the classifier returned category_probs (lines 361-410):
\* the value returned, with the local sorted_models kept beside it.
RouteRaises(category_probs) == Len(category_probs) = 0

route_result(category_probs, filtered_models, dm, dnm) ==
    LET weights == get_dynamic_weights(category_probs)
        scores == calculate_model_scores(category_probs, filtered_models)
        normalized_scores == normalize_scores(scores, weights[1], weights[2])
        sorted == sorted_models(normalized_scores)
        primary_model == PrimaryModel(sorted, dm)
        secondary_model == SecondaryModel(sorted, primary_model)
    IN  [primary_model |-> primary_model,
         primary_model_display_name |-> DisplayNameIn(normalized_scores, primary_model),
         secondary_model |-> secondary_model,
         secondary_model_display_name |-> DisplayNameIn(normalized_scores, secondary_model),
         default_model |-> dm,
         default_model_display_name |-> DefaultDisplayName(dnm, dm),
         metadata |->
            [predicted_category |-> PredictedCategory(category_probs),
             confidence |-> Confidence(category_probs),
             category_probabilities |-> category_probs,
             quality_weight |-> weights[1],
             cost_weight |-> weights[2],
             model_scores |-> normalized_scores,
             classification_method |-> "ml_classification"],
         sorted_models |-> Names(sorted)]

(***************************************************************************)
(* The /complete endpoint (main.route_prompt_endpoint) around route_prompt. *)
(* The handler runs without interruption up to its one await, the call of  *)
(* the classifier, and again from the classifier's answer to its end.      *)
(***************************************************************************)
RequestTypes == {"free", "pro", "gold"}

\* The values of the variables of a component that takes no part in a
\* specification.
NoReload ==
    /\ last_config_check = 0
    /\ config_file = [models |-> <<>>, mtime |-> 0]
    /\ now = 0
NoLogger ==
    /\ instance = <<>>
    /\ lock = "free"
    /\ thread = <<>>
NoDataset ==
    /\ checkpoint_file = <<>>
    /\ output_file = <<>>
    /\ run = <<>>

\* A prompt is the sequence of its characters.
Prompt_hi == <<"h", "i">>
Prompt_ok == <<"o", "k">>
Prompt_draft_this == <<"d", "r", "a", "f", "t", " ", "t", "h", "i", "s">>

\* The prompts of the requests: the routing of Spec does not read the prompt
\* (the rule layer is switched off, line 355), so its requests carry one
\* prompt; SpecPrompt sends the empty prompt and others too.
RoutePrompts == {Prompt_hi}
AllPrompts == {<<>>, Prompt_ok, Prompt_hi, Prompt_draft_this}

\* _KEYWORDS, two of its categories with one keyword each.
Keywords == [writing |-> {<<"d", "r", "a", "f", "t">>}, conversation |-> {<<"h", "i">>}]

\* _PATTERNS[category].search(prompt): some keyword of the category occurs
\* somewhere in the prompt.
PatternSearch(category, prompt) ==
    \E k \in Keywords[category] :
        \E i \in 0..(Len(prompt) - Len(k)) : SubSeq(prompt, i + 1, i + Len(k)) = k

\* The checks of _apply_simple_prompt_rules for these categories, in their
\* priority order, with their hand-authored weights 0.9 and 0.1.
RuleChecks == <<
    [category |-> "writing",
     weights |-> <<Item("writing", (9 * ProbScale) \div 10),
                   Item("creative", ProbScale \div 10)>>],
    [category |-> "conversation",
     weights |-> <<Item("conversation", (9 * ProbScale) \div 10),
                   Item("roleplay", ProbScale \div 10)>>] >>

\* _apply_simple_prompt_rules: the first check whose pattern matches, <<>>
\* for None.  route_prompt does not call it: line 354 is commented out and
\* line 355 sets simple_result = None.
apply_simple_prompt_rules(prompt) ==
    LET M == {i \in 1..Len(RuleChecks) : PatternSearch(RuleChecks[i].category, prompt)}
    IN  IF M = {} THEN <<>>
        ELSE <<RuleChecks[CHOOSE i \in M : \A j \in M : i <= j]>>

\* Mutant of GaugeDec: the finally clause does not decrement.
GaugeDec_Skipped(g) == g

\* CONCURRENT_REQUESTS.dec() in the finally clause (main.py, line 136)
GaugeDec(g) == g - 1

\* CONCURRENT_REQUESTS.inc() on entry (main.py, line 89)
GaugeInc(g) == g + 1

IdleRequest ==
    [pc |-> "idle", prompt |-> <<>>, request_type |-> "", matched |-> <<>>,
     filtered |-> <<>>, warnings |-> {}, classifier_calls |-> 0,
     category_probs |-> <<>>, result |-> <<>>,
     status |-> 0, counted |-> {}, error |-> ""]

\* The request q ended with an HTTP status; counted holds the labels of
\* REQUEST_COUNT it incremented, error the exception that ended it.
Ended(q, category_probs, result, status, counted, error) ==
    [q EXCEPT !.pc = "done", !.category_probs = category_probs, !.result = result,
              !.status = status, !.counted = counted, !.error = error]

\* Mutant of InternalError: the exception is swallowed and the request is
\* answered as a success.
InternalError_Swallowed(q, category_probs, result, counted, error) ==
    Ended(q, category_probs, result, 200, counted \cup {"success"}, error)

\* main.py, lines 130-133: any exception but an HTTPException counts an
\* error and becomes a 500; no response body carries a decision.
InternalError(q, category_probs, result, counted, error) ==
    Ended(q, category_probs, result, 500, counted \cup {"error"}, error)

\* Mutant of ValidRequestType: the request type is not validated.
ValidRequestType_Any(request_type) == TRUE

\* main.py, line 96
ValidRequestType(request_type) == request_type \in {"pro", "free"}

\* PromptResponse (main.py, lines 77-84) declares its model names as str: a
\* decision whose default_model is None does not validate.
ResponseValid(result) ==
    /\ result.default_model # "None"
    /\ result.default_model_display_name # "None"

\* A request as it enters the endpoint.
Entered(prompt, request_type) ==
    [IdleRequest EXCEPT !.pc = "entered", !.prompt = prompt,
                        !.request_type = request_type]

\* request_type not in ["pro", "free"]: HTTPException 400, re-raised as it is;
\* the gauge goes up on entry and down in the finally clause.
Reject(r, request_type, prompt) ==
    /\ req[r].pc # "classifying"
    /\ ~ValidRequestType(request_type)
    /\ req' = [req EXCEPT ![r] =
            Ended(Entered(prompt, request_type), <<>>, <<>>, 400, {}, "HTTPException")]
    /\ concurrent_requests' = GaugeDec(GaugeInc(concurrent_requests))
    /\ UNCHANGED <<model_scores, default_model, model_display_name_map,
                   wdist, wout, cands, sout,
                   reloadVars, loggerVars, datasetVars>>

\* A valid request enters route_prompt: tier filter and fallback.  An empty
\* filter result is logged as a warning.  With an empty catalog the fallback
\* raises IndexError, which the endpoint turns into a 500; otherwise the
\* handler is suspended at the classifier call, which is made for every
\* prompt: the rule layer is switched off (simple_result = None, line 355).
Start(r, request_type, prompt) ==
    /\ req[r].pc # "classifying"
    /\ ValidRequestType(request_type)
    /\ LET matched == filter_models_by_tier(model_scores, request_type)
           q == [Entered(prompt, request_type) EXCEPT
                    !.matched = Names(matched),
                    !.warnings = IF matched = <<>> THEN {"No models available"} ELSE {}]
       IN  IF matched = <<>> /\ model_scores = <<>>
           THEN /\ req' = [req EXCEPT ![r] =
                        InternalError(q, <<>>, <<>>, {}, "IndexError")]
                /\ concurrent_requests' = GaugeDec(GaugeInc(concurrent_requests))
           ELSE /\ req' = [req EXCEPT ![r] =
                        [q EXCEPT !.pc = "classifying",
                                  !.classifier_calls = 1,
                                  !.filtered = IF matched = <<>>
                                      THEN fallback_models(model_scores, default_model)
                                      ELSE matched]]
                /\ concurrent_requests' = GaugeInc(concurrent_requests)
    /\ UNCHANGED <<model_scores, default_model, model_display_name_map, wdist, wout,
                   cands, sout,
                   reloadVars, loggerVars, datasetVars>>

\* Mutant of ClassifierReturns: the router keeps the primary model of the
\* call as its default model.
ClassifierReturns_KeepsPrimary(r, category_probs) ==
    /\ req[r].pc = "classifying"
    /\ LET q == req[r]
           result == route_result(category_probs, q.filtered, default_model,
                                  model_display_name_map)
       IN  /\ req' = [req EXCEPT ![r] =
                  IF RouteRaises(category_probs)
                  THEN InternalError(q, category_probs, <<>>, {}, "ValueError")
                  ELSE IF ~ResponseValid(result)
                  THEN InternalError(q, category_probs, <<result>>, {"success"},
                                     "ValidationError")
                  ELSE Ended(q, category_probs, <<result>>, 200, {"success"}, "")]
           /\ default_model' = IF RouteRaises(category_probs) THEN default_model
                                ELSE result.primary_model
    /\ concurrent_requests' = GaugeDec(concurrent_requests)
    /\ UNCHANGED <<model_scores, model_display_name_map, wdist, wout,
                   cands, sout, reloadVars, loggerVars, datasetVars>>

\* The classifier answers: the rest of route_prompt and of the endpoint.
\* The success is counted (line 113) before the response is built.
ClassifierReturns(r, category_probs) ==
    /\ req[r].pc = "classifying"
    /\ LET q == req[r]
           result == route_result(category_probs, q.filtered, default_model,
                                  model_display_name_map)
       IN  req' = [req EXCEPT ![r] =
                IF RouteRaises(category_probs)
                THEN InternalError(q, category_probs, <<>>, {}, "ValueError")
                ELSE IF ~ResponseValid(result)
                THEN InternalError(q, category_probs, <<result>>, {"success"},
                                   "ValidationError")
                ELSE Ended(q, category_probs, <<result>>, 200, {"success"}, "")]
    /\ concurrent_requests' = GaugeDec(concurrent_requests)
    /\ UNCHANGED <<model_scores, default_model, model_display_name_map, wdist, wout,
                   cands, sout,
                   reloadVars, loggerVars, datasetVars>>

\* The classifier raises: the exception leaves route_prompt, which has no
\* handler, and the endpoint answers 500.
ClassifierFails(r) ==
    /\ req[r].pc = "classifying"
    /\ req' = [req EXCEPT ![r] =
            InternalError(req[r], <<>>, <<>>, {}, "ClassificationError")]
    /\ concurrent_requests' = GaugeDec(concurrent_requests)
    /\ UNCHANGED <<model_scores, default_model, model_display_name_map, wdist, wout,
                   cands, sout,
                   reloadVars, loggerVars, datasetVars>>

\* PromptRouter() constructed at time 0 from the config file cfg.
Constructed(cfg) ==
    /\ model_scores = cfg
    /\ default_model = load_config_default_model(cfg)
    /\ model_display_name_map = load_config_display_name_map(cfg)
    /\ last_config_check = 0
    /\ config_file = [models |-> cfg, mtime |-> 0]
    /\ now = 0

\* The state after PromptRouter() was constructed from a config file.
Init ==
    /\ \E cfg \in Configs : Constructed(cfg)
    /\ req = [r \in Requests |-> IdleRequest]
    /\ concurrent_requests = 0
    /\ wdist = <<>>
    /\ wout = <<>>
    /\ cands = <<>>
    /\ sout = <<>>
    /\ NoLogger /\ NoDataset

Next ==
    \/ \E r \in Requests, t \in RequestTypes, p \in RoutePrompts : Reject(r, t, p)
    \/ \E r \in Requests, t \in RequestTypes, p \in RoutePrompts : Start(r, t, p)
    \/ \E r \in Requests, d \in RouteDists : ClassifierReturns(r, d)
    \/ \E r \in Requests : ClassifierFails(r)

Spec == Init /\ [][Next]_vars

(***************************************************************************)
(* The same endpoint with any prompt, the empty one included, on the       *)
(* catalogs of at most one backend.                                        *)
(***************************************************************************)
PromptInit ==
    /\ \E cfg \in {c \in Configs : Len(c) <= 1} : Constructed(cfg)
    /\ req = [r \in Requests |-> IdleRequest]
    /\ concurrent_requests = 0
    /\ wdist = <<>>
    /\ wout = <<>>
    /\ cands = <<>>
    /\ sout = <<>>
    /\ NoLogger /\ NoDataset

PromptNext ==
    \/ \E r \in Requests, t \in RequestTypes, p \in AllPrompts : Reject(r, t, p)
    \/ \E r \in Requests, t \in RequestTypes, p \in AllPrompts : Start(r, t, p)
    \/ \E r \in Requests, d \in RouteDists : ClassifierReturns(r, d)
    \/ \E r \in Requests : ClassifierFails(r)

SpecPrompt == PromptInit /\ [][PromptNext]_vars

(***************************************************************************)
(* The endpoint while time passes and the config file is rewritten.        *)
(* route_prompt does not call _check_config_reload (the call at line 263   *)
(* is commented out), so Start is the whole of a route call's entry here   *)
(* too.                                                                    *)
(***************************************************************************)
\* PromptRouter._config_check_interval, in seconds
config_check_interval == 60

\* The clock stops at MaxTime.
MaxTime == 125

\* The config files of one default backend.
ReloadConfigs == {c \in Configs : Len(c) = 1 /\ c[1].is_default}

ReloadDists == {<<Item("math", ProbScale)>>}

ReloadInit ==
    /\ \E cfg \in ReloadConfigs : Constructed(cfg)
    /\ req = [r \in Requests |-> IdleRequest]
    /\ concurrent_requests = 0
    /\ wdist = <<>>
    /\ wout = <<>>
    /\ cands = <<>>
    /\ sout = <<>>
    /\ NoLogger /\ NoDataset

\* The config file is rewritten: its st_mtime becomes the current time.
WriteConfig(cfg) ==
    /\ cfg # config_file.models
    /\ config_file' = [models |-> cfg, mtime |-> now]
    /\ UNCHANGED <<model_scores, default_model, model_display_name_map, req,
                   concurrent_requests, wdist, wout, cands, sout,
                   last_config_check, now, loggerVars, datasetVars>>

\* time.time() advances by d seconds.
Advance(d) ==
    /\ now + d <= MaxTime
    /\ now' = now + d
    /\ UNCHANGED <<model_scores, default_model, model_display_name_map, req,
                   concurrent_requests, wdist, wout, cands, sout,
                   last_config_check, config_file, loggerVars, datasetVars>>

ReloadNext ==
    \/ \E r \in Requests, t \in RequestTypes, p \in RoutePrompts : Reject(r, t, p)
    \/ \E r \in Requests, t \in RequestTypes, p \in RoutePrompts : Start(r, t, p)
    \/ \E r \in Requests, d \in ReloadDists : ClassifierReturns(r, d)
    \/ \E r \in Requests : ClassifierFails(r)
    \/ \E cfg \in ReloadConfigs : WriteConfig(cfg)
    \/ \E d \in {config_check_interval \div 2, config_check_interval + 1} : Advance(d)

SpecReload == ReloadInit /\ [][ReloadNext]_vars

(***************************************************************************)
(* _get_dynamic_weights called on its own, on any dict over the categories *)
(* with probabilities k / ProbScale, 0 <= k <= ProbScale.                  *)
(***************************************************************************)
DictOf(f) ==
    LET sel == SelectSeq(CategoryOrder, LAMBDA c : f[c] >= 0)
    IN  [i \in 1..Len(sel) |-> Item(sel[i], f[sel[i]])]

WeightDists == {DictOf(f) : f \in [Categories -> -1..ProbScale]}

WeightsInit ==
    /\ model_scores = <<>>
    /\ default_model = "None"
    /\ model_display_name_map = <<>>
    /\ req = [r \in Requests |-> IdleRequest]
    /\ concurrent_requests = 0
    /\ wdist \in WeightDists
    /\ wout = <<>>
    /\ cands = <<>>
    /\ sout = <<>>
    /\ NoReload /\ NoLogger /\ NoDataset

CallWeights ==
    /\ wout = <<>>
    /\ wout' = <<get_dynamic_weights(wdist)>>
    /\ UNCHANGED <<model_scores, default_model, model_display_name_map, req,
                   concurrent_requests, wdist, cands, sout,
                   reloadVars, loggerVars, datasetVars>>

WeightsNext == CallWeights

SpecWeights == WeightsInit /\ [][WeightsNext]_vars

(***************************************************************************)
(* The score engine called on its own: _calculate_model_scores and         *)
(* _normalize_scores, with the weights of _get_dynamic_weights, on         *)
(* candidate sets that repeat quality vectors and costs.                   *)
(***************************************************************************)
ScoreQualities == {[math |-> 9], [math |-> 5], [math |-> 9, conversation |-> 7]}
ScoreCosts == {1, 5}
ScoreNames == <<"m1", "m2", "m3", "m4", "m5">>

\* The candidates: up to MaxModels entries named by their position.
ScoreCandidates ==
    UNION {{[i \in 1..n |->
                [name |-> ScoreNames[i], tier |-> "free", cost_per_request |-> c[i],
                 quality |-> q[i], display_name |-> "", is_default |-> FALSE]] :
            q \in [1..n -> ScoreQualities], c \in [1..n -> ScoreCosts]} :
           n \in 1..MaxModels}

ScoreDists ==
    {DictOf(f) : f \in {g \in [Categories -> {-1, 0, ProbScale \div 2, ProbScale}] :
                            g["writing"] = -1 /\ g["poetry"] # 0}}

ScoreInit ==
    /\ model_scores = <<>>
    /\ default_model = "None"
    /\ model_display_name_map = <<>>
    /\ req = [r \in Requests |-> IdleRequest]
    /\ concurrent_requests = 0
    /\ wdist \in ScoreDists
    /\ wout = <<>>
    /\ cands \in ScoreCandidates
    /\ sout = <<>>
    /\ NoReload /\ NoLogger /\ NoDataset

\* route_prompt, lines 368-372
CallScore ==
    /\ sout = <<>>
    /\ LET w == get_dynamic_weights(wdist)
           scores == calculate_model_scores(wdist, cands)
       IN  sout' = <<[quality_weight |-> w[1], cost_weight |-> w[2],
                      normalized_scores |-> normalize_scores(scores, w[1], w[2])]>>
    /\ UNCHANGED <<model_scores, default_model, model_display_name_map, req,
                   concurrent_requests, wdist, wout, cands,
                   reloadVars, loggerVars, datasetVars>>

ScoreNext == CallScore

SpecScore == ScoreInit /\ [][ScoreNext]_vars

(***************************************************************************)
(* DailyLogger (logging_utils.py): the singleton's __new__, called by      *)
(* several threads.  Each step is one line of __new__; a thread can be     *)
(* preempted between any two of them.                                      *)
(***************************************************************************)
Threads == {"t1", "t2", "t3"}

routerVars == <<model_scores, default_model, model_display_name_map, req,
                concurrent_requests, wdist, wout, cands, sout>>

\* The router takes no part in the specification.
NoRouter ==
    /\ model_scores = <<>>
    /\ default_model = "None"
    /\ model_display_name_map = <<>>
    /\ req = [r \in Requests |-> IdleRequest]
    /\ concurrent_requests = 0
    /\ wdist = <<>>
    /\ wout = <<>>
    /\ cands = <<>>
    /\ sout = <<>>

\* A thread before its call of DailyLogger(): created and setups count the
\* instances it created and its runs of _setup_logger, got is what its call
\* returned, as it was at the return.
IdleThread == [pc |-> "idle", created |-> 0, setups |-> 0, got |-> <<>>]

LoggerInit ==
    /\ NoRouter /\ NoReload /\ NoDataset
    /\ instance = <<>>
    /\ lock = "free"
    /\ thread = [t \in Threads |-> IdleThread]

\* DailyLogger() is called.
CallNew(t) ==
    /\ thread[t].pc = "idle"
    /\ thread' = [thread EXCEPT ![t].pc = "line12"]
    /\ UNCHANGED <<instance, lock, routerVars, reloadVars, datasetVars>>

\* line 12: if not cls._instance
FirstCheck(t) ==
    /\ thread[t].pc = "line12"
    /\ thread' = [thread EXCEPT ![t].pc = IF instance = <<>> THEN "line13" ELSE "line17"]
    /\ UNCHANGED <<instance, lock, routerVars, reloadVars, datasetVars>>

\* line 13: with cls._lock
AcquireLock(t) ==
    /\ thread[t].pc = "line13"
    /\ lock = "free"
    /\ lock' = t
    /\ thread' = [thread EXCEPT ![t].pc = "line14"]
    /\ UNCHANGED <<instance, routerVars, reloadVars, datasetVars>>

\* line 14: if not cls._instance
SecondCheck(t) ==
    /\ thread[t].pc = "line14"
    /\ thread' = [thread EXCEPT ![t].pc = IF instance = <<>> THEN "line15" ELSE "unlock"]
    /\ UNCHANGED <<instance, lock, routerVars, reloadVars, datasetVars>>

\* line 15: cls._instance = super().__new__(cls): an object without a
\* logger attribute.
CreateInstance(t) ==
    /\ thread[t].pc = "line15"
    /\ instance' = <<[logger |-> FALSE]>>
    /\ thread' = [thread EXCEPT ![t].pc = "line16", ![t].created = @ + 1]
    /\ UNCHANGED <<lock, routerVars, reloadVars, datasetVars>>

\* line 16: cls._instance._setup_logger(), which sets self.logger (line 22)
SetupLogger(t) ==
    /\ thread[t].pc = "line16"
    /\ instance' = <<[instance[1] EXCEPT !.logger = TRUE]>>
    /\ thread' = [thread EXCEPT ![t].pc = "unlock", ![t].setups = @ + 1]
    /\ UNCHANGED <<lock, routerVars, reloadVars, datasetVars>>

\* the end of the with block
ReleaseLock(t) ==
    /\ thread[t].pc = "unlock"
    /\ lock' = "free"
    /\ thread' = [thread EXCEPT ![t].pc = "line17"]
    /\ UNCHANGED <<instance, routerVars, reloadVars, datasetVars>>

\* line 17: return cls._instance
ReturnInstance(t) ==
    /\ thread[t].pc = "line17"
    /\ thread' = [thread EXCEPT ![t].pc = "done", ![t].got = instance]
    /\ UNCHANGED <<instance, lock, routerVars, reloadVars, datasetVars>>

LoggerNext ==
    \E t \in Threads :
        \/ CallNew(t)
        \/ FirstCheck(t)
        \/ AcquireLock(t)
        \/ SecondCheck(t)
        \/ CreateInstance(t)
        \/ SetupLogger(t)
        \/ ReleaseLock(t)
        \/ ReturnInstance(t)

SpecLogger == LoggerInit /\ [][LoggerNext]_vars

(***************************************************************************)
(* DatasetProcessor.run (data/process_oasst1.py): runs that may be         *)
(* interrupted and are resumed from the checkpoint file.  The rows of a    *)
(* batch are written together; the output file is the sequence of the      *)
(* batch numbers whose rows it holds.                                      *)
(***************************************************************************)
\* len(prompts)
NumPrompts == 7
\* BATCH_SIZE, scaled down
BATCH_SIZE == 2
\* The interruptions of one behaviour.
MaxInterrupts == 2

\* total_batches = (len(prompts) + BATCH_SIZE - 1) // BATCH_SIZE
total_batches == (NumPrompts + BATCH_SIZE - 1) \div BATCH_SIZE

\* len(batch_prompts) for prompts[start_idx:end_idx]
BatchLen(batch_num) ==
    LET start_idx == (batch_num - 1) * BATCH_SIZE
        end_idx == IF start_idx + BATCH_SIZE < NumPrompts THEN start_idx + BATCH_SIZE
                   ELSE NumPrompts
    IN  end_idx - start_idx

\* ProcessingState
ProcessingState(processed_count, current_batch) ==
    [processed_count |-> processed_count, current_batch |-> current_batch]

\* No run is going on; runs and interrupts count the runs started and the
\* interruptions so far.
NoRun(runs, interrupts) ==
    [pc |-> "off", runs |-> runs, interrupts |-> interrupts,
     state |-> ProcessingState(0, 1), batch_num |-> 0, results |-> 0]

DatasetInit ==
    /\ NoRouter /\ NoReload /\ NoLogger
    /\ checkpoint_file = <<>>
    /\ output_file = <<>>
    /\ run = NoRun(0, 0)

\* load_checkpoint and the choice of start_batch (lines 294-308).  A run is
\* started for the first time, or again while a checkpoint is left.
RunStart ==
    /\ run.pc = "off"
    /\ run.runs = 0 \/ checkpoint_file # <<>>
    /\ LET state == IF checkpoint_file # <<>> THEN checkpoint_file[1]
                    ELSE ProcessingState(0, 1)
       IN  run' = [run EXCEPT !.pc = "loop", !.runs = @ + 1, !.state = state,
                              !.batch_num = state.current_batch]
    /\ UNCHANGED <<checkpoint_file, output_file, routerVars, reloadVars, loggerVars>>

\* for batch_num in range(start_batch, total_batches + 1): process_batch, or
\* the end of the loop.
ProcessBatch ==
    /\ run.pc = "loop"
    /\ run' = IF run.batch_num <= total_batches
              THEN [run EXCEPT !.pc = "write", !.results = run.batch_num]
              ELSE [run EXCEPT !.pc = "cleanup"]
    /\ UNCHANGED <<checkpoint_file, output_file, routerVars, reloadVars, loggerVars>>

\* write_results_to_csv(results, is_first_batch): mode 'w' for the first
\* batch of a run that has processed nothing, else 'a'.
WriteResults ==
    /\ run.pc = "write"
    /\ LET is_first_batch == run.batch_num = 1 /\ run.state.processed_count = 0
       IN  output_file' = IF is_first_batch THEN <<run.results>>
                          ELSE Append(output_file, run.results)
    /\ run' = [run EXCEPT !.pc = "count"]
    /\ UNCHANGED <<checkpoint_file, routerVars, reloadVars, loggerVars>>

\* state.processed_count += len(batch_prompts)
CountProcessed ==
    /\ run.pc = "count"
    /\ run' = [run EXCEPT !.pc = "advance",
                          !.state.processed_count = @ + BatchLen(run.batch_num)]
    /\ UNCHANGED <<checkpoint_file, output_file, routerVars, reloadVars, loggerVars>>

\* state.current_batch = batch_num + 1
AdvanceBatch ==
    /\ run.pc = "advance"
    /\ run' = [run EXCEPT !.pc = "save", !.state.current_batch = run.batch_num + 1]
    /\ UNCHANGED <<checkpoint_file, output_file, routerVars, reloadVars, loggerVars>>

\* save_checkpoint(state) at the end of the loop body
SaveCheckpoint ==
    /\ run.pc = "save"
    /\ checkpoint_file' = <<run.state>>
    /\ run' = [run EXCEPT !.pc = "loop", !.batch_num = @ + 1]
    /\ UNCHANGED <<output_file, routerVars, reloadVars, loggerVars>>

\* KeyboardInterrupt or an exception anywhere in the try block: the handler
\* saves the checkpoint; the exception is raised again and ends the run, the
\* KeyboardInterrupt goes on to the cleanup.
Interrupt(kind) ==
    /\ run.pc \in {"loop", "write", "count", "advance", "save"}
    /\ run.interrupts < MaxInterrupts
    /\ checkpoint_file' = <<run.state>>
    /\ run' = IF kind = "KeyboardInterrupt"
              THEN [run EXCEPT !.pc = "cleanup", !.interrupts = @ + 1]
              ELSE NoRun(run.runs, run.interrupts + 1)
    /\ UNCHANGED <<output_file, routerVars, reloadVars, loggerVars>>

\* if state.processed_count >= len(prompts): unlink the checkpoint
Cleanup ==
    /\ run.pc = "cleanup"
    /\ checkpoint_file' = IF run.state.processed_count >= NumPrompts THEN <<>>
                          ELSE checkpoint_file
    /\ run' = NoRun(run.runs, run.interrupts)
    /\ UNCHANGED <<output_file, routerVars, reloadVars, loggerVars>>

DatasetNext ==
    \/ RunStart
    \/ ProcessBatch
    \/ WriteResults
    \/ CountProcessed
    \/ AdvanceBatch
    \/ SaveCheckpoint
    \/ \E kind \in {"KeyboardInterrupt", "Exception"} : Interrupt(kind)
    \/ Cleanup

SpecDataset == DatasetInit /\ [][DatasetNext]_vars

(***************************************************************************)
(* Properties                                                              *)
(***************************************************************************)
HasResult(r) == req[r].result # <<>>
Res(r) == req[r].result[1]
\* The request went through the tier filter of route_prompt.
Filtered(r) == req[r].pc \in {"classifying", "done"} /\ req[r].request_type \in {"pro", "free"}
SeqSet(s) == {s[i] : i \in 1..Len(s)}
CatalogEntry(nm) == CHOOSE m \in SeqSet(model_scores) : m.name = nm
CatalogIndex(nm) == CHOOSE i \in 1..Len(model_scores) : model_scores[i].name = nm
Scored(res, nm) == CHOOSE x \in SeqSet(res.metadata.model_scores) : x.name = nm

\* C1: tier isolation.  A route call whose tier filter matched at least one
\* backend (no fallback) returns a primary and a secondary backend of the
\* requested tier, never one of the other tier.
C1_TierIsolation ==
    \A r \in Requests :
        (HasResult(r) /\ req[r].matched # <<>>) =>
            /\ CatalogEntry(Res(r).primary_model).tier = req[r].request_type
            /\ CatalogEntry(Res(r).secondary_model).tier = req[r].request_type

\* A pro call and a free call both answered from a catalog holding both tiers.
C1_Witness ==
    /\ HasResult("r1") /\ req["r1"].request_type = "pro" /\ req["r1"].matched # <<>>
    /\ HasResult("r2") /\ req["r2"].request_type = "free" /\ req["r2"].matched # <<>>

\* C2: the tier filter returns exactly the catalog backends whose tier equals
\* the requested tier: none of the other tier, none of the requested tier
\* left out.
C2_FilterExact ==
    \A r \in Requests :
        Filtered(r) =>
            SeqSet(req[r].matched) =
                {m.name : m \in {x \in SeqSet(model_scores) : x.tier = req[r].request_type}}

\* The filter kept some backends and dropped others.
C2_Witness ==
    \E r \in Requests :
        /\ Filtered(r)
        /\ Len(req[r].matched) >= 2
        /\ Len(req[r].matched) < Len(model_scores)

\* C3: when no backend matches the requested tier and the catalog is not
\* empty, the candidate set is exactly the is_default backend if there is
\* one, else exactly the first backend of the catalog; the candidate set of a
\* non-empty catalog is never empty.
C3_Fallback ==
    \A r \in Requests :
        (Filtered(r) /\ model_scores # <<>>) =>
            /\ req[r].filtered # <<>>
            /\ req[r].matched = <<>> =>
                 IF \E m \in SeqSet(model_scores) : m.is_default
                 THEN req[r].filtered =
                        <<CHOOSE m \in SeqSet(model_scores) : m.is_default>>
                 ELSE req[r].filtered = <<model_scores[1]>>

\* The fallback took a default backend that is not the first of the catalog.
C3_Witness ==
    \E r \in Requests :
        /\ Filtered(r)
        /\ req[r].matched = <<>>
        /\ Len(model_scores) >= 2
        /\ req[r].filtered = <<model_scores[2]>>

\* C4: every scored candidate's final score lies in [0, 1].
C4_FinalScoreBounded ==
    \A r \in Requests :
        HasResult(r) =>
            \A x \in SeqSet(Res(r).metadata.model_scores) :
                RatLeq(RatZero, x.final_score) /\ RatLeq(x.final_score, RatOne)

\* Both degenerate ties at once (equal qualities, equal costs) in one call,
\* and the cost tie alone, with distinct qualities, in another.
C4_Witness ==
    /\ HasResult("r1") /\ Len(Res("r1").metadata.model_scores) >= 2
    /\ \A x, y \in SeqSet(Res("r1").metadata.model_scores) :
          x.quality_score = y.quality_score /\ x.cost = y.cost
    /\ HasResult("r2")
    /\ \E x, y \in SeqSet(Res("r2").metadata.model_scores) :
          x.quality_score < y.quality_score /\ x.cost = y.cost

\* C5: the importance weights.  importanceScore is sum(prob * importance) /
\* sum(prob) with critical 1.0, medium 0.5, casual 0.0, a category absent from
\* the table counting as medium, and 0 when sum(prob) = 0; the weights are
\* (0.9, 0.1) from 0.7 on, (0.6, 0.4) from 0.4 on, (0.2, 0.8) below, and
\* always sum to 1.
CriticalCategories == {"math"}
CasualCategories == {"conversation"}
RECURSIVE MassIn(_, _)
MassIn(d, S) ==
    IF d = <<>> THEN 0
    ELSE (IF Head(d).category \in S THEN Head(d).prob ELSE 0) + MassIn(Tail(d), S)
\* importanceScore >= a / 10, cross-multiplied: the score is
\* (critical + medium / 2) / total.
ScoreAtLeast(d, a) ==
    LET critical == MassIn(d, CriticalCategories)
        medium == MassIn(d, Categories \ (CriticalCategories \cup CasualCategories))
        total == MassIn(d, Categories)
    IN  total > 0 /\ 10 * (2 * critical + medium) >= a * 2 * total

C5_ImportanceWeights ==
    wout # <<>> =>
        /\ wout[1] = IF ScoreAtLeast(wdist, 7) THEN <<9, 1>>
                     ELSE IF ScoreAtLeast(wdist, 4) THEN <<6, 4>>
                     ELSE <<2, 8>>
        /\ wout[1][1] + wout[1][2] = 10

\* An unnormalised dict with a category absent from the table, whose score
\* is exactly 0.7.
C5_Witness ==
    /\ wout = << <<9, 1>> >>
    /\ MassIn(wdist, {"poetry"}) > 0
    /\ MassIn(wdist, Categories) # ProbScale
    /\ 10 * ImportanceSum2(wdist, 1) = 14 * TotalProb(wdist, 1)

\* C6 as stated: whatever the other probabilities are, a probability >= 0.9
\* on a critical category gives quality weight 0.9 and a probability >= 0.9
\* on a casual category gives quality weight 0.2.
HasMass(d, S) == \E i \in 1..Len(d) : d[i].category \in S /\ 10 * d[i].prob >= 9 * ProbScale

C6_Original ==
    wout # <<>> =>
        /\ HasMass(wdist, CriticalCategories) => wout[1][1] = 9
        /\ HasMass(wdist, CasualCategories) => wout[1][1] = 2

\* C6 amended: the same for every dict whose probabilities sum to at most 1.
C6_Concentrated ==
    (wout # <<>> /\ MassIn(wdist, Categories) <= ProbScale) =>
        /\ HasMass(wdist, CriticalCategories) => wout[1][1] = 9
        /\ HasMass(wdist, CasualCategories) => wout[1][1] = 2

\* 0.9 on the casual category and the rest of the mass on the critical one.
C6_Witness ==
    /\ wout # <<>>
    /\ MassIn(wdist, Categories) = ProbScale
    /\ HasMass(wdist, CasualCategories)
    /\ MassIn(wdist, CriticalCategories) > 0
    /\ wout[1][1] = 2

\* C7: the ranking holds every candidate once, in descending order of final
\* score, and candidates of equal final score stand in catalog order.
C7_RankingStable ==
    \A r \in Requests :
        HasResult(r) =>
            LET sm == Res(r).sorted_models
                fs(i) == Scored(Res(r), sm[i]).final_score
            IN  /\ Len(sm) = Len(req[r].filtered)
                /\ SeqSet(sm) = NameSet(req[r].filtered)
                /\ \A i, j \in 1..Len(sm) :
                      i < j =>
                        /\ RatLeq(fs(j), fs(i))
                        /\ fs(i) = fs(j) => CatalogIndex(sm[i]) < CatalogIndex(sm[j])

\* Three candidates: the last one of the catalog ranks first, tied with
\* another one, and a third one ranks strictly lower.
C7_Witness ==
    \E r \in Requests :
        /\ HasResult(r)
        /\ Len(Res(r).sorted_models) = 3
        /\ LET sm == Res(r).sorted_models
           IN  \E i \in 1..2 :
                 /\ Scored(Res(r), sm[i]).final_score = Scored(Res(r), sm[i + 1]).final_score
                 /\ \E j \in 1..2 :
                      RatLt(Scored(Res(r), sm[j + 1]).final_score,
                            Scored(Res(r), sm[j]).final_score)
        /\ Res(r).sorted_models # Names(req[r].filtered)

\* C8: primary is the first of the ranking; secondary is the second of the
\* ranking, or the primary when there is one candidate only; default is the
\* catalog's is_default entry, in the ranked set or not.
C8_Selection ==
    \A r \in Requests :
        HasResult(r) =>
            LET sm == Res(r).sorted_models
            IN  /\ Res(r).primary_model = sm[1]
                /\ Len(req[r].filtered) = 1 => Res(r).secondary_model = Res(r).primary_model
                /\ Len(req[r].filtered) > 1 => Res(r).secondary_model = sm[2]
                /\ \A m \in SeqSet(model_scores) :
                      m.is_default => Res(r).default_model = m.name

\* Two candidates ranked, with a default backend outside the ranked set,
\* beside a call with a single candidate.
C8_Witness ==
    /\ HasResult("r1") /\ Len(Res("r1").sorted_models) = 2
    /\ Res("r1").secondary_model # Res("r1").primary_model
    /\ Res("r1").default_model # "None"
    /\ Res("r1").default_model \notin SeqSet(Res("r1").sorted_models)
    /\ HasResult("r2") /\ Len(Res("r2").sorted_models) = 1

\* C9: two route calls with the same tier and the same category distribution,
\* on the same catalog, rank the candidates alike and select the same primary
\* and secondary models, whatever ran before or between them.
C9_Determinism ==
    \A r1, r2 \in Requests :
        (/\ HasResult(r1) /\ HasResult(r2)
         /\ req[r1].request_type = req[r2].request_type
         /\ req[r1].category_probs = req[r2].category_probs) =>
            /\ Res(r1).sorted_models = Res(r2).sorted_models
            /\ Res(r1).primary_model = Res(r2).primary_model
            /\ Res(r1).secondary_model = Res(r2).secondary_model

\* Two calls with the same inputs and several candidates, both answered.
C9_Witness ==
    /\ HasResult("r1") /\ HasResult("r2")
    /\ req["r1"].request_type = req["r2"].request_type
    /\ req["r1"].category_probs = req["r2"].category_probs
    /\ Len(Res("r1").sorted_models) >= 2

\* The scenario of C10: the catalog is {A, B}, the tier is free and the
\* distribution is {math: 1.0}.
C10_Scenario(r) ==
    /\ NameSet(model_scores) = {"A", "B"}
    /\ HasResult(r)
    /\ req[r].request_type = "free"
    /\ req[r].category_probs = <<Item("math", ProbScale)>>

\* C10 as stated: weights (0.9, 0.1); normalised quality 1 for A and 0 for B;
\* normalised cost 0 for A and 1 for B; final score 0.9 for A and 0.1 for B;
\* primary A.
C10_Original ==
    \A r \in Requests :
        C10_Scenario(r) =>
            /\ Res(r).metadata.quality_weight = 9 /\ Res(r).metadata.cost_weight = 1
            /\ Scored(Res(r), "A").normalized_quality = RatOne
            /\ Scored(Res(r), "B").normalized_quality = RatZero
            /\ Scored(Res(r), "A").normalized_cost = RatZero
            /\ Scored(Res(r), "B").normalized_cost = RatOne
            /\ Scored(Res(r), "A").final_score = Rat(9, 10)
            /\ Scored(Res(r), "B").final_score = Rat(1, 10)
            /\ Res(r).primary_model = "A"

\* C10 amended: the cheaper backend A has normalised cost 1 and B has 0, so
\* the final scores are 1.0 for A and 0.0 for B; the rest is as stated.
C10_EndToEnd ==
    \A r \in Requests :
        C10_Scenario(r) =>
            /\ Res(r).metadata.quality_weight = 9 /\ Res(r).metadata.cost_weight = 1
            /\ Scored(Res(r), "A").normalized_quality = RatOne
            /\ Scored(Res(r), "B").normalized_quality = RatZero
            /\ Scored(Res(r), "A").normalized_cost = RatOne
            /\ Scored(Res(r), "B").normalized_cost = RatZero
            /\ Scored(Res(r), "A").final_score = RatOne
            /\ Scored(Res(r), "B").final_score = RatZero
            /\ Res(r).primary_model = "A"

\* The scenario was routed, with B first in the catalog.
C10_Witness ==
    \E r \in Requests : C10_Scenario(r) /\ model_scores[1].name = "B"

\* C11: if every candidate has the same quality vector, then, whatever the
\* category distribution, the normalised quality of every candidate is 1.0.
C11_QualityTie ==
    (sout # <<>> /\ \A i, j \in 1..Len(cands) : cands[i].quality = cands[j].quality) =>
        \A i \in 1..Len(cands) : sout[1].normalized_scores[i].normalized_quality = RatOne

\* Several candidates of one quality vector and different costs were scored
\* on a distribution that gives them a positive raw quality.
C11_Witness ==
    /\ sout # <<>>
    /\ Len(cands) >= 2
    /\ \A i, j \in 1..Len(cands) : cands[i].quality = cands[j].quality
    /\ \E i, j \in 1..Len(cands) : cands[i].cost_per_request # cands[j].cost_per_request
    /\ sout[1].normalized_scores[1].quality_score > 0
    /\ sout[1].normalized_scores[1].normalized_quality = RatOne

\* C12: if every candidate has the same cost, the normalised cost of every
\* candidate is 1.0, so the final score is quality_weight * normalised
\* quality + cost_weight and differs between candidates by quality alone.
C12_CostTie ==
    (sout # <<>> /\ \A i, j \in 1..Len(cands) :
                        cands[i].cost_per_request = cands[j].cost_per_request) =>
        \A i \in 1..Len(cands) :
            LET x == sout[1].normalized_scores[i]
            IN  /\ x.normalized_cost = RatOne
                /\ x.final_score =
                       Rat(sout[1].quality_weight * x.normalized_quality.n
                               + sout[1].cost_weight * x.normalized_quality.d,
                           10 * x.normalized_quality.d)

\* Candidates of one cost and different raw qualities got different final
\* scores.
C12_Witness ==
    /\ sout # <<>>
    /\ \A i, j \in 1..Len(cands) : cands[i].cost_per_request = cands[j].cost_per_request
    /\ \E i, j \in 1..Len(cands) :
           /\ sout[1].normalized_scores[i].quality_score
                  < sout[1].normalized_scores[j].quality_score
           /\ RatLt(sout[1].normalized_scores[i].final_score,
                    sout[1].normalized_scores[j].final_score)

\* The request r was answered from the fallback on the default backend: no
\* backend of its tier, a default backend in the other tier.
FellBackToDefault(r) ==
    HasResult(r) /\ req[r].matched = <<>> /\ default_model # "None"

\* C13: when the requested tier matches no backend and a default backend
\* exists in the other tier, primary and secondary are the default backend
\* and the returned metadata records that the fallback was taken: it is not
\* the metadata of a call that was answered without the fallback.
C13_Original ==
    \A r \in Requests :
        FellBackToDefault(r) =>
            /\ Res(r).primary_model = default_model
            /\ Res(r).secondary_model = default_model
            /\ \A s \in Requests :
                   (HasResult(s) /\ req[s].matched # <<>>) =>
                       Res(s).metadata # Res(r).metadata

\* C14: with a catalog of exactly one backend, of tier pro and is_default,
\* every route call the classifier answers, for either tier and any
\* distribution, returns primary = secondary = default = that backend.
C14_Original ==
    (Len(model_scores) = 1 /\ model_scores[1].tier = "pro" /\ model_scores[1].is_default) =>
        \A r \in Requests :
            (req[r].pc = "done" /\ req[r].request_type \in {"pro", "free"}
                                /\ req[r].error # "ClassificationError") =>
                /\ HasResult(r)
                /\ Res(r).primary_model = model_scores[1].name
                /\ Res(r).secondary_model = model_scores[1].name
                /\ Res(r).default_model = model_scores[1].name

\* C15: a route call whose classifier fails ends as a request failure: it
\* holds no category distribution and no routing decision, and it counted an
\* error and no success.
C15_ClassifierFailure ==
    \A r \in Requests :
        req[r].error = "ClassificationError" =>
            /\ req[r].pc = "done"
            /\ req[r].status = 500
            /\ req[r].category_probs = <<>>
            /\ req[r].result = <<>>
            /\ req[r].counted = {"error"}

\* The classifier failed on a request that had candidates of its own tier,
\* while the other request was answered.
C15_Witness ==
    \E r, s \in Requests :
        /\ req[r].error = "ClassificationError"
        /\ Len(req[r].filtered) >= 2
        /\ req[r].matched # <<>>
        /\ req[s].status = 200

\* C16: a request whose tier is neither free nor pro fails with status 400:
\* it never reaches the router (no filter, no classifier call) and yields no
\* decision.
C16_InvalidTier ==
    \A r \in Requests :
        (req[r].pc # "idle" /\ req[r].request_type \notin {"free", "pro"}) =>
            /\ req[r].pc = "done"
            /\ req[r].status = 400
            /\ req[r].filtered = <<>>
            /\ req[r].category_probs = <<>>
            /\ req[r].result = <<>>
            /\ req[r].counted = {}

\* A request of tier gold was rejected by a router whose catalog has a
\* default backend and backends of both tiers.
C16_Witness ==
    \E r \in Requests :
        /\ req[r].request_type = "gold"
        /\ req[r].status = 400
        /\ default_model # "None"
        /\ \E i, j \in 1..Len(model_scores) :
               model_scores[i].tier = "free" /\ model_scores[j].tier = "pro"

\* C17: a request with an empty prompt is rejected as an invalid argument
\* before the classifier is called and before any candidate is scored.
C17_Original ==
    \A r \in Requests :
        (req[r].pc # "idle" /\ req[r].prompt = <<>>) =>
            /\ req[r].pc = "done"
            /\ req[r].status = 400
            /\ req[r].category_probs = <<>>
            /\ req[r].result = <<>>

\* C18: with a catalog without an is_default entry and a backend of the
\* requested tier, a request whose classifier returned a non-empty
\* distribution is answered with a successful routing decision.
C18_Original ==
    \A r \in Requests :
        (/\ req[r].pc = "done"
         /\ \A i \in 1..Len(model_scores) : ~model_scores[i].is_default
         /\ req[r].matched # <<>>
         /\ req[r].category_probs # <<>>) =>
            /\ HasResult(r)
            /\ req[r].status = 200

\* C19: for a non-empty catalog, every distribution the classifier returns,
\* the empty one included, is routed: the route call returns a decision.
C19_Original ==
    \A r \in Requests :
        (/\ req[r].pc = "done"
         /\ req[r].request_type \in {"pro", "free"}
         /\ model_scores # <<>>
         /\ req[r].error # "ClassificationError") =>
            HasResult(r)

\* C20: with an empty catalog a route call fails with the service-unavailable
\* condition (status 503) of NoEligibleBackend and returns no decision.
C20_Original ==
    \A r \in Requests :
        (/\ req[r].pc = "done"
         /\ req[r].request_type \in {"pro", "free"}
         /\ model_scores = <<>>) =>
            /\ req[r].result = <<>>
            /\ req[r].status = 503

\* C23: when a rule of the rule layer matches the prompt, the route call does
\* not call the classifier, routes on the rule's two-category distribution
\* and reports rule_based; when none matches, it calls the classifier once
\* and reports ml_classification.
C23_Original ==
    \A r \in Requests :
        HasResult(r) =>
            LET rule == apply_simple_prompt_rules(req[r].prompt)
            IN  IF rule # <<>>
                THEN /\ req[r].classifier_calls = 0
                     /\ Res(r).metadata.category_probabilities = rule[1].weights
                     /\ Res(r).metadata.classification_method = "rule_based"
                ELSE /\ req[r].classifier_calls = 1
                     /\ Res(r).metadata.classification_method = "ml_classification"

\* The probability the dict d gives to category c, 0 if c is not a key.
ProbIn(d, c) ==
    IF \E k \in 1..Len(d) : d[k].category = c
    THEN d[CHOOSE k \in 1..Len(d) : d[k].category = c].prob
    ELSE 0

\* The sum over the categories of S of probability times coefficient, a
\* category without a coefficient in quality contributing 0.
RECURSIVE WeightedSum(_, _, _)
WeightedSum(S, d, quality) ==
    IF S = {} THEN 0
    ELSE LET c == CHOOSE x \in S : TRUE
         IN  ProbIn(d, c) * (IF c \in DOMAIN quality THEN quality[c] ELSE 0)
             + WeightedSum(S \ {c}, d, quality)

\* C25: the raw quality score of each candidate is the sum over the
\* categories of the distribution of probability times the candidate's
\* coefficient, a missing coefficient contributing 0.
C25_QualityRaw ==
    sout # <<>> =>
        \A i \in 1..Len(cands) :
            sout[1].normalized_scores[i].quality_score =
                WeightedSum({wdist[k].category : k \in 1..Len(wdist)}, wdist,
                            cands[i].quality)

\* A candidate without a coefficient for a category of positive probability
\* was scored, and got a positive score from its other coefficients.
C25_Witness ==
    /\ sout # <<>>
    /\ \E i \in 1..Len(cands), k \in 1..Len(wdist) :
           /\ wdist[k].prob > 0
           /\ wdist[k].category \notin DOMAIN cands[i].quality
           /\ sout[1].normalized_scores[i].quality_score > 0

\* The catalog ms with the cost and the quality coefficients of every
\* backend outside keep changed.
OutsideChanged(ms, keep) ==
    [i \in 1..Len(ms) |->
        IF ms[i].name \in keep THEN ms[i]
        ELSE [ms[i] EXCEPT !.cost_per_request = @ + 7,
                           !.quality = [math |-> 1, conversation |-> 10, writing |-> 10]]]

\* The score breakdown the request r gets from the catalog ms.
BreakdownFrom(r, ms) ==
    LET matched == filter_models_by_tier(ms, req[r].request_type)
        filtered == IF matched = <<>> THEN fallback_models(ms, default_model) ELSE matched
    IN  route_result(req[r].category_probs, filtered, default_model,
                     model_display_name_map).metadata.model_scores

\* C26: normalisation is scoped to the candidate set.  The normalised
\* quality, normalised cost and final score of the candidates do not change
\* when the costs and coefficients of the backends outside the candidate set
\* change; when raw qualities differ the best candidate has normalised
\* quality 1 and the worst 0, and when costs differ the cheapest has
\* normalised cost 1 and the most expensive 0.
C26_CandidateScope ==
    \A r \in Requests :
        HasResult(r) =>
            LET ns == Res(r).metadata.model_scores
                I == 1..Len(ns)
            IN  /\ BreakdownFrom(r, OutsideChanged(model_scores, NameSet(req[r].filtered))) = ns
                /\ \A i \in I :
                     /\ ((\A j \in I : ns[j].quality_score <= ns[i].quality_score)
                            /\ (\E j \in I : ns[j].quality_score < ns[i].quality_score))
                           => ns[i].normalized_quality = RatOne
                     /\ ((\A j \in I : ns[i].quality_score <= ns[j].quality_score)
                            /\ (\E j \in I : ns[i].quality_score < ns[j].quality_score))
                           => ns[i].normalized_quality = RatZero
                     /\ ((\A j \in I : ns[i].cost <= ns[j].cost)
                            /\ (\E j \in I : ns[i].cost < ns[j].cost))
                           => ns[i].normalized_cost = RatOne
                     /\ ((\A j \in I : ns[j].cost <= ns[i].cost)
                            /\ (\E j \in I : ns[j].cost < ns[i].cost))
                           => ns[i].normalized_cost = RatZero

\* Two candidates of different raw quality and different cost were scored
\* while the catalog holds a backend outside the candidate set whose raw
\* quality on the distribution is higher than that of both.
C26_Witness ==
    \E r \in Requests :
        /\ HasResult(r)
        /\ LET ns == Res(r).metadata.model_scores
           IN  /\ Len(ns) = 2
               /\ ns[1].quality_score # ns[2].quality_score
               /\ ns[1].cost # ns[2].cost
               /\ \E m \in SeqSet(model_scores) :
                      /\ m.name \notin NameSet(req[r].filtered)
                      /\ \A i \in 1..2 :
                             ns[i].quality_score < QualityScore(req[r].category_probs, m, 1)

\* C27: a route call is read-only on the router: whether it succeeds or
\* fails, no step of it changes the catalog, the default model, the
\* display-name map or the reload timer, and nothing of a call's scores is
\* kept in the router.
C27_ReadOnly ==
    [][/\ model_scores' = model_scores
       /\ default_model' = default_model
       /\ model_display_name_map' = model_display_name_map
       /\ last_config_check' = last_config_check]_vars

\* One call succeeded with a primary model that is not the default model,
\* and one call failed after the classifier had answered.
C27_Witness ==
    \E r, s \in Requests :
        /\ req[r].status = 200
        /\ Res(r).primary_model # default_model
        /\ req[s].status = 500
        /\ req[s].error = "ValueError"

\* C28: the concurrent-requests gauge equals the number of requests in
\* flight, whatever the outcome of the requests that ended: it is never
\* negative and is zero when no request is in flight.
C28_Gauge ==
    /\ concurrent_requests = Cardinality({r \in Requests : req[r].pc = "classifying"})
    /\ concurrent_requests >= 0

\* One request is in flight after requests ended with 400 and, on the other
\* slot, with 500; and both requests are in flight.
C28_Witness ==
    \E r, s \in Requests :
        /\ req[r].pc = "classifying"
        /\ req[s].pc = "done"
        /\ req[s].status = 500
        /\ concurrent_requests = 1

\* The step is the entry of request r into route_prompt.
RouteEntry(r) == req[r].pc # "classifying" /\ req'[r].pc = "classifying"

\* The check interval has elapsed since the last reload check.
IntervalElapsed == now - last_config_check > config_check_interval

\* The config file was modified after the last reload check.
ConfigModified == config_file.mtime > last_config_check

\* C21: hot reload is live.  A route call that starts when the config file
\* was modified and the check interval has elapsed reloads the catalog, so
\* that this call and the calls after it rank the backends of the new
\* configuration.
C21_Original ==
    [][\A r \in Requests :
          (RouteEntry(r) /\ IntervalElapsed /\ ConfigModified) =>
              /\ model_scores' = config_file.models
              /\ req'[r].matched =
                     Names(filter_models_by_tier(config_file.models, req'[r].request_type))]_vars

\* C24: of the route calls that pass the interval threshold after a config
\* change exactly one reloads the catalog: the first one performs the reload
\* check and restarts the interval, and a call within the interval performs
\* no check.
C24_Original ==
    [][\A r \in Requests :
          RouteEntry(r) =>
              IF IntervalElapsed
              THEN /\ last_config_check' = now
                   /\ ConfigModified => model_scores' = config_file.models
              ELSE /\ last_config_check' = last_config_check
                   /\ model_scores' = model_scores]_vars

\* C29: under concurrent first calls of DailyLogger() one instance is
\* created, _setup_logger runs once, and every call returns the instance
\* with its logger set up.
C29_Original ==
    /\ Cardinality({t \in Threads : thread[t].created > 0}) <= 1
    /\ Cardinality({t \in Threads : thread[t].setups > 0}) <= 1
    /\ \A t \in Threads : thread[t].created <= 1 /\ thread[t].setups <= 1
    /\ \A t \in Threads :
           thread[t].pc = "done" => (thread[t].got # <<>> /\ thread[t].got[1].logger)

\* The number of times the rows of batch b are in the output file.
TimesWritten(b) == Cardinality({i \in 1..Len(output_file) : output_file[i] = b})

\* C30: the run is resumable without loss or duplication.  Whatever the
\* interruptions, no batch is ever in the output file twice; and the
\* checkpoint is deleted only when every batch has been processed, so that
\* once the runs are over every batch is in the output file exactly once.
C30_Original ==
    /\ \A b \in 1..total_batches : TimesWritten(b) <= 1
    /\ (run.pc = "off" /\ run.runs > 0 /\ checkpoint_file = <<>>) =>
           \A b \in 1..total_batches : TimesWritten(b) = 1

====
